---- MODULE Spec2Model ----
(***************************************************************************)
(* Telemetry agents of the planetary-neural-network repository:            *)
(*   sensor      DHT11Sensor        (pi4_dht11_sensor.py)                  *)
(*   health      PiHealthMonitor    (pi4_health_monitor.py)                *)
(*   sensor_sim  DHT11Simulator     (test_dht11_integration.py)            *)
(*   health_sim  PiHealthSimulator  (test_pi_health_integration.py)        *)
(* One behaviour is one process: main(), then run() with its preflight,    *)
(* its cycle of acquire / report / sidecar queries / sleep, and its        *)
(* except / finally clauses.  The sensor, the host metric sources, the     *)
(* HTTP API, the wall clock, the random source and the operator's Ctrl-C   *)
(* are the environment: their outcomes are drawn with \E.                  *)
(* Floats are modelled by integers: whole units where only comparisons     *)
(* are made on them, thousandths in the simulators' arithmetic.            *)
(* Spec follows all four scripts with time.time() drawn; SpecTimed follows *)
(* the health monitor with its wall clock counted in seconds; SpecSynth    *)
(* applies the simulators' generators to every draw; SpecInterval starts   *)
(* the health monitor with other values of --interval; SpecLive adds the   *)
(* fairness under which the loop makes progress.                           *)
(* An optional value (Python None or a value) is a sequence of length <= 1.*)
(***************************************************************************)
EXTENDS Integers, Sequences, FiniteSets, TLC

VARIABLES
    variant,       \* which script this process runs
    is_root,       \* os.geteuid() == 0
    interval,      \* READING_INTERVAL / self.interval
    pc,            \* control position
    dht_device,    \* self.dht_device is set
    attempt,       \* loop index of read_sensor_data
    attempts,      \* history: classification of each attempt of the current call
    nBackoffs,     \* history: time.sleep(1) calls completed in the current call
    sample,        \* sensor_data / health_data of run(): None or the dict
    response,      \* history: outcome of the POST of the current cycle
    success,       \* return value of the last send_* call
    posted,        \* history: payload of the POST of the current cycle
    postsInCycle,  \* history: POSTs issued since the last inter-cycle sleep
    pending,       \* sidecar GETs still to be issued at this point of run()
    issued,        \* history: kinds of I/O issued from the loop and its set-up
    probe,         \* history: outcome of the preflight step
    shutdown_log,  \* messages logged by the except / finally clauses of run()
    exitStatus,    \* None while the process lives, then its exit status
    ev,            \* history: what happened in the last step
    input,         \* history: what the environment gave the acquisition of this cycle
    trace,         \* history: the I/O operations of the current cycle, in order
    clock,         \* time.time() in seconds when it is followed, None when it is drawn
    groups,        \* history: when each group of sidecar GETs was started
    previous       \* history: what the generator returned the call before

vars == <<variant, is_root, interval, pc, dht_device, attempt, attempts, nBackoffs,
          sample, response, success, posted, postsInCycle, pending, issued, probe,
          shutdown_log, exitStatus, ev, input, trace, clock, groups, previous>>

----------------------------------------------------------------------------
(* Program constants *)

MAX_RETRIES == 3
READING_INTERVAL == 2
MONITORING_INTERVAL == 30
SIM_SENSOR_INTERVAL == 2
SIM_HEALTH_INTERVAL == 30

None == <<>>
Some(v) == <<v>>
Val(o) == o[1]

Variants == {"sensor", "health", "sensor_sim", "health_sim"}

----------------------------------------------------------------------------
(* The environment's answers *)

\* what self.dht_device.temperature / .humidity can yield: None or a number
RawTemperatures == {None, Some(-101), Some(-100), Some(22), Some(100), Some(150)}
RawHumidities == {None, Some(-1), Some(0), Some(48), Some(100), Some(101)}

\* one attempt on the sensor: the property reads raise, or yield a pair
SourceOutcomes ==
    {[raised |-> TRUE, temperature |-> None, humidity |-> None]} \cup
    [raised : {FALSE}, temperature : RawTemperatures, humidity : RawHumidities]

\* session.post(...): a response with a status code, a
\* requests.exceptions.RequestException (connection error, timeout), or any
\* other exception
StatusCodes == {200, 201, 400, 500}
PostOutcomes ==
    [kind : {"status"}, code : StatusCodes] \cup
    {[kind |-> "RequestException", code |-> 0], [kind |-> "Exception", code |-> 0]}

\* session.get(...) followed by the use made of the body: body "bad" is a body on
\* which response.json() / data.get(...) raises something that is no RequestException
GetOutcomes ==
    [kind : {"status"}, code : {200}, body : {"ok", "bad"}] \cup
    [kind : {"status"}, code : {404, 500}, body : {"ok"}] \cup
    {[kind |-> "RequestException", code |-> 0, body |-> "ok"]}

\* time.time(), in seconds
ClockSamples == {0, 29, 30, 150, 299, 300, 329, 330}

\* session.get(.../health) of the preflight: the body is not read
ProbeOutcomes ==
    [kind : {"status"}, code : {200, 500}] \cup
    {[kind |-> "RequestException", code |-> 0], [kind |-> "Exception", code |-> 0]}

\* adafruit_dht.DHT11(pin): returns the device or raises
InitOutcomes == {"ok", "raises"}

\* the host metric sources read by the getters of PiHealthMonitor
RequiredSources == {"cpu_temperature", "cpu_usage", "memory_usage", "disk_usage",
                    "network_usage", "system_load", "uptime"}
OptionalSources == {"cpu_voltage", "cpu_frequency"}
MetricSources == RequiredSources \cup OptionalSources

----------------------------------------------------------------------------
(* DHT11Sensor.read_sensor_data: the pure parts *)

\* a variant of Classify that omits the test temperature > 100
Classify_NoUpperBound(t, h) ==
    IF t = None \/ h = None THEN "Missing"
    ELSE IF Val(t) < -100 THEN "OutOfRange"
    ELSE IF Val(h) < 0 \/ Val(h) > 100 THEN "OutOfRange"
    ELSE "Valid"

\* a variant of Classify whose comparisons reject the bounds themselves
Classify_BoundsExcluded(t, h) ==
    IF t = None \/ h = None THEN "Missing"
    ELSE IF Val(t) <= -100 \/ Val(t) >= 100 THEN "OutOfRange"
    ELSE IF Val(h) <= 0 \/ Val(h) >= 100 THEN "OutOfRange"
    ELSE "Valid"

\* the checks made on one (temperature, humidity) pair
Classify(t, h) ==
    IF t = None \/ h = None THEN "Missing"
    ELSE IF Val(t) < -100 \/ Val(t) > 100 THEN "OutOfRange"
    ELSE IF Val(h) < 0 \/ Val(h) > 100 THEN "OutOfRange"
    ELSE "Valid"

\* a variant of MoreAttempts that is off by one: range(MAX_RETRIES + 1)
MoreAttempts_OffByOne(a) == a <= MAX_RETRIES

\* for attempt in range(MAX_RETRIES): is index a still in the range
MoreAttempts(a) == a < MAX_RETRIES

\* a variant of SleepsAfter whose except clause sleeps after the last attempt too
SleepsAfter_AfterLastAttempt(cls, a) ==
    CASE cls = "Missing" -> TRUE
      [] cls = "OutOfRange" -> FALSE
      [] cls = "SourceException" -> TRUE
      [] OTHER -> FALSE

\* does attempt a, having failed as cls, call time.sleep(1) before the loop goes on
SleepsAfter(cls, a) ==
    CASE cls = "Missing" -> TRUE
      [] cls = "OutOfRange" -> FALSE
      [] cls = "SourceException" -> a < MAX_RETRIES - 1
      [] OTHER -> FALSE

\* a variant of FailedRead that falls back on the reading of an earlier cycle
FailedRead_KeepsLast(prev) == prev

\* what read_sensor_data returns when it has no valid reading: `return None`,
\* whatever run() still holds from the cycle before
FailedRead(prev) == None

\* a variant of Reading that stores the two values under each other's key
Reading_Swapped(o) ==
    [temperature |-> Val(o.humidity), humidity |-> Val(o.temperature)]

\* the dict read_sensor_data returns for a valid pair (the timestamp, the
\* device id and the location are left out)
Reading(o) ==
    [temperature |-> Val(o.temperature), humidity |-> Val(o.humidity)]

\* the payload send_to_api builds from sensor_data (the timestamp, the device id
\* and the location are carried through unchanged and left out)
SensorPayload(d) ==
    [temperature |-> d.temperature, humidity |-> d.humidity,
     gpioPin |-> 4, sensorType |-> "DHT11"]

----------------------------------------------------------------------------
(* PiHealthMonitor.collect_health_data *)

RequiredFields == {"cpuTemperature", "cpuUsage", "memoryUsage", "diskUsage",
                   "networkUpload", "networkDownload", "uptime",
                   "loadAverage1m", "loadAverage5m", "loadAverage15m"}

\* the getter whose result fills a field of the payload
FieldSource(f) ==
    CASE f = "cpuTemperature" -> "cpu_temperature"
      [] f = "cpuUsage" -> "cpu_usage"
      [] f = "memoryUsage" -> "memory_usage"
      [] f = "diskUsage" -> "disk_usage"
      [] f \in {"networkUpload", "networkDownload"} -> "network_usage"
      [] f = "uptime" -> "uptime"
      [] f \in {"loadAverage1m", "loadAverage5m", "loadAverage15m"} -> "system_load"
      [] f = "voltage" -> "cpu_voltage"
      [] f = "frequency" -> "cpu_frequency"

\* the reading a working source gives (one representative value per field)
SourceReading(f) ==
    CASE f = "cpuTemperature" -> 45
      [] f = "cpuUsage" -> 30
      [] f = "memoryUsage" -> 50
      [] f = "diskUsage" -> 60
      [] f = "networkUpload" -> 10
      [] f = "networkDownload" -> 20
      [] f = "uptime" -> 3600
      [] f \in {"loadAverage1m", "loadAverage5m", "loadAverage15m"} -> 1
      [] f = "voltage" -> 1
      [] f = "frequency" -> 1500

\* a variant of RequiredGetter that marks a failed source with -1
RequiredGetter_MinusOne(f, avail) == IF FieldSource(f) \in avail THEN SourceReading(f) ELSE -1

\* a getter of a required metric: the reading, or 0.0 when its source fails
RequiredGetter(f, avail) == IF FieldSource(f) \in avail THEN SourceReading(f) ELSE 0

\* a variant of OptionalGetter that returns 0.0 like the other getters
OptionalGetter_ZeroWhenUnavailable(f, avail) ==
    IF FieldSource(f) \in avail THEN Some(SourceReading(f)) ELSE Some(0)

\* get_cpu_voltage / get_cpu_frequency: the reading, or None when unavailable
OptionalGetter(f, avail) == IF FieldSource(f) \in avail THEN Some(SourceReading(f)) ELSE None

\* the dict built from the getters' results; avail = the sources that work
CollectHealthData(avail) ==
    LET optional == {f \in {"voltage", "frequency"} : OptionalGetter(f, avail) # None}
    IN  [f \in RequiredFields \cup optional |->
            IF f \in RequiredFields THEN RequiredGetter(f, avail)
            ELSE Val(OptionalGetter(f, avail))]

----------------------------------------------------------------------------
(* PiHealthSimulator.generate_realistic_health_data.  A float x is the       *)
(* integer 1000 * x; uptime and the clock stay in seconds.                   *)

\* 1000 * sin(k * pi / 12) for k = 0 .. 6, to the nearest integer
SinTable == <<0, 259, 500, 707, 866, 966, 1000>>

\* 1000 * math.sin(k * math.pi / 12) for an integer k
Sin12(k) ==
    LET m == (k + 24) % 24
    IN  IF m <= 6 THEN SinTable[m + 1]
        ELSE IF m <= 12 THEN SinTable[13 - m]
        ELSE IF m <= 18 THEN 0 - SinTable[m - 11]
        ELSE 0 - SinTable[25 - m]

Max(a, b) == IF a >= b THEN a ELSE b
Min(a, b) == IF a <= b THEN a ELSE b

\* max(lo, min(hi, x))
Clamp(lo, hi, x) == Max(lo, Min(hi, x))

\* a variant of Round that forgets to scale the rounded quotient back
Round_NotScaledBack(x, unit) ==
    LET q == x \div unit
        r == x % unit
    IN  IF 2 * r > unit \/ (2 * r = unit /\ q % 2 = 1) THEN q + 1 ELSE q

\* round(x, n): to the nearest multiple of unit = 1000 / 10^n, ties to even
Round(x, unit) ==
    LET q == x \div unit
        r == x % unit
    IN  unit * (IF 2 * r > unit \/ (2 * r = unit /\ q % 2 = 1) THEN q + 1 ELSE q)

\* datetime.now().hour, the results of the random.uniform calls in the order
\* they are made, and time.time()
SynthDraws ==
    [hour : 0..23,
     temp_noise : {-2000, 2000},
     usage_noise : {-5000, 0, 5000},
     memory_noise : {-3000, 3000},
     disk_noise : {-2000, 2000},
     load_1m_noise : {-500, 500},
     load_5m_noise : {-200, 200},
     load_15m_noise : {-100, 100},
     network_upload : {5000},
     network_download : {10000},
     now : {330},
     uptime_noise : {0},
     voltage_noise : {0},
     frequency_noise : {0}]

\* the draws met by the cycles of one run of the simulator
RunDraws ==
    {d \in SynthDraws :
        /\ d.hour \in {2, 14}
        /\ d.temp_noise = -2000 /\ d.usage_noise = -5000 /\ d.memory_noise = -3000
        /\ d.disk_noise = -2000 /\ d.load_1m_noise = -500
        /\ d.load_5m_noise = -200 /\ d.load_15m_noise = -100}

\* a variant of Uptime that grows with every call on the same object
Uptime_GrowsWithCalls(d) ==
    d.now + d.uptime_noise + (IF sample = None THEN 0 ELSE interval)

\* uptime = time.time() + random.uniform(-3600, 3600), in seconds
Uptime(d) == d.now + d.uptime_noise

\* the dict returned for the draws d: every field is present
GenerateHealthData(d) ==
    LET temp_variation == 10 * Sin12(d.hour - 6)
        usage_variation == 20 * Sin12(d.hour - 8)
        cpu_temperature == Clamp(20000, 85000, 45000 + temp_variation + d.temp_noise)
        cpu_usage == Clamp(5000, 95000, 30000 + usage_variation + d.usage_noise)
        memory_usage == Clamp(20000, 90000,
                              50000 + ((usage_variation * 8) \div 10) + d.memory_noise)
        disk_usage == Clamp(40000, 95000, 60000 + d.disk_noise)
        load_1m == Max(100, ((cpu_usage * 2) \div 100) + d.load_1m_noise)
        load_5m == ((load_1m * 8) \div 10) + d.load_5m_noise
        load_15m == ((load_5m * 9) \div 10) + d.load_15m_noise
    IN  [cpuTemperature |-> Round(cpu_temperature, 10),
         cpuUsage |-> Round(cpu_usage, 10),
         memoryUsage |-> Round(memory_usage, 10),
         diskUsage |-> Round(disk_usage, 10),
         networkUpload |-> Round(d.network_upload, 10),
         networkDownload |-> Round(d.network_download, 10),
         uptime |-> Uptime(d),
         loadAverage1m |-> Round(load_1m, 10),
         loadAverage5m |-> Round(load_5m, 10),
         loadAverage15m |-> Round(load_15m, 10),
         voltage |-> Round(4800 + d.voltage_noise, 1),
         frequency |-> Round(1400000 + d.frequency_noise, 1000)]

----------------------------------------------------------------------------
(* The reporter and the preflight: the pure parts *)

\* a variant of PostSuccess that takes 200 OK for success as well
PostSuccess_Accepts200(r) == r.kind = "status" /\ r.code \in {200, 201}

\* response.status_code == 201
PostSuccess(r) == r.kind = "status" /\ r.code = 201

\* a variant of PostEscapes in which send_* has no except clause
PostEscapes_NothingCaught(r) == r.kind \in {"RequestException", "Exception"}

\* except requests.exceptions.RequestException: anything else leaves send_*
PostEscapes(r) == r.kind = "Exception"

\* a variant of TestApiConnection that takes any HTTP response for a live API
TestApiConnection_AnyStatus(r) == r.kind = "status"

\* test_api_connection: response.status_code == 200, False on a RequestException
TestApiConnection(r) == r.kind = "status" /\ r.code = 200

\* initialize_sensor: True when the constructor returned, False when it raised
InitializeSensor(hw) == hw = "ok"

\* a variant of QueryEscapes in which a non-200 answer raises as well
\* (as with response.raise_for_status() outside the try block)
QueryEscapes_RaiseForStatus(r) == r.kind = "status" /\ (r.code # 200 \/ r.body = "bad")

\* a sidecar getter raises when the 200 body is not what data.get(...) expects
QueryEscapes(r) == r.kind = "status" /\ r.code = 200 /\ r.body = "bad"

\* a variant of ShouldReport in which run() reports without looking at the result
ShouldReport_Always(data) == TRUE

\* run(): `if sensor_data:` / `if health_data:` (None is false, the dict is true)
ShouldReport(data) == data # None

\* a variant of AfterAcquire in which a failed acquisition is followed by
\* `continue`: the next acquisition starts without the sleep
AfterAcquire_ContinuesOnFailure(data) == IF ShouldReport(data) THEN "report" ELSE "acquire"

\* a variant of AfterAcquire in which run() makes the sidecar queries first
AfterAcquire_QueriesBeforeReport(data) == IF ShouldReport(data) THEN "sidecar" ELSE "sleep"

\* where run() goes with what the acquisition returned
AfterAcquire(data) == IF ShouldReport(data) THEN "report" ELSE "sleep"

\* what the environment did to a sidecar GET
QueryEvent(r) ==
    CASE r.kind = "status" /\ r.code = 200 /\ r.body = "ok" -> "query_200"
      [] r.kind = "status" /\ r.code = 200 /\ r.body = "bad" -> "query_bad_body"
      [] r.kind = "status" /\ r.code # 200 -> "query_non200"
      [] OTHER -> "query_request_exception"

\* what the environment did to the POST
PostEvent(r) ==
    CASE r.kind = "status" /\ r.code = 201 -> "post_201"
      [] r.kind = "status" /\ r.code # 201 -> "post_non201"
      [] r.kind = "RequestException" -> "post_request_exception"
      [] OTHER -> "post_exception"

----------------------------------------------------------------------------
(* run(): the parts that differ between the four scripts *)

DefaultInterval(v) ==
    CASE v = "sensor" -> READING_INTERVAL
      [] v = "health" -> MONITORING_INTERVAL
      [] v = "sensor_sim" -> SIM_SENSOR_INTERVAL
      [] v = "health_sim" -> SIM_HEALTH_INTERVAL

\* the GETs issued between the preflight and the loop
InitialQueries(v) ==
    CASE v = "sensor" -> <<>>
      [] v = "health" -> <<"status", "recommendations">>
      [] v = "sensor_sim" -> <<"stats">>
      [] v = "health_sim" -> <<"status", "recommendations">>

\* the GETs issued in a cycle whose POST succeeded, when they are due
CycleQueries(v) ==
    CASE v = "sensor" -> <<>>
      [] v = "health" -> <<"status", "recommendations">>
      [] v = "sensor_sim" -> <<"latest", "stats">>
      [] v = "health_sim" -> <<"status", "recommendations", "alerts">>

\* a variant of SidecarDue that compares with the default interval, not self.interval
SidecarDue_DefaultInterval(v, now, draw, itv) ==
    CASE v = "sensor" -> FALSE
      [] v = "health" -> (now % 300) < MONITORING_INTERVAL
      [] OTHER -> draw

\* a variant of SidecarDue whose comparison is <= instead of <
SidecarDue_Inclusive(v, now, draw, itv) ==
    CASE v = "sensor" -> FALSE
      [] v = "health" -> (now % 300) <= itv
      [] OTHER -> draw

\* time.time() % 300 < self.interval (health), random.random() < 0.1 (simulators)
SidecarDue(v, now, draw, itv) ==
    CASE v = "sensor" -> FALSE
      [] v = "health" -> (now % 300) < itv
      [] OTHER -> draw

\* a variant of AfterReport without the test `if success:`
AfterReport_IgnoresResult(ok, due) == IF due THEN "sidecar" ELSE "sleep"

\* a variant of AfterReport in which a failed POST is sent again
AfterReport_RetriesFailedPost(ok, due) ==
    IF ok THEN (IF due THEN "sidecar" ELSE "sleep") ELSE "report"

\* where run() goes with what send_* returned: the sidecar GETs when the POST
\* succeeded and they are due, the sleep otherwise
AfterReport(ok, due) == IF ok /\ due THEN "sidecar" ELSE "sleep"

\* the getters in the order collect_health_data calls them
GetterCalls == <<"cpu_temperature", "cpu_usage", "memory_usage", "disk_usage",
                 "network_usage", "system_load", "uptime", "cpu_voltage",
                 "cpu_frequency">>

\* has run() a finally clause
HasFinally(v) == v \in {"sensor", "health"}

\* what the except clause taken and the finally clause log
ShutdownMessages(v, first) ==
    <<first>> \o (IF HasFinally(v) THEN <<"monitoring_stopped">> ELSE <<>>)

LoopPcs == {"acquire", "read", "backoff", "report", "sidecar", "sleep"}
FinalPcs == {"not_root", "preflight_failed", "crashed", "stopped"}

\* the state of the agent loop
AgentState ==
    CASE pc \in {"main", "preflight"} -> "Uninitialized"
      [] pc = "initial_sidecar" -> "Ready"
      [] pc \in LoopPcs -> "Running"
      [] pc = "stopped" -> "Stopped"
      [] OTHER -> "Exited"

----------------------------------------------------------------------------
(* The wall clock *)

\* the clock is followed up to MaxClock seconds
MaxClock == 340

\* seconds a GET or a POST takes, and seconds time.sleep() overshoots
CallDurations == {0, 1}
SleepOvershoots == {0, 1}

\* a variant of SleepDuration in which the loop does not wait for the interval
SleepDuration_NoInterval(itv, extra) == extra

\* time.sleep(self.interval) suspends for at least the interval
SleepDuration(itv, extra) == itv + extra

\* psutil.cpu_percent(interval=1) of get_cpu_usage blocks for one second
CollectDuration(avail) == IF "cpu_usage" \in avail THEN 1 ELSE 0

\* the sets of working metric sources a cycle can meet
HostStates ==
    IF clock = None THEN SUBSET MetricSources
    ELSE {MetricSources, MetricSources \ {"cpu_usage"}}

\* what time.time() can return d seconds from now
Now(d) == IF clock = None THEN ClockSamples ELSE {Val(clock) + d}

\* d seconds pass
Tick(d) ==
    IF clock = None THEN clock' = None
    ELSE Val(clock) + d <= MaxClock /\ clock' = Some(Val(clock) + d)

\* the first GET of a group of sidecar queries is issued now
GroupStart(phase, first) ==
    IF clock # None /\ first
      THEN Append(groups, [at |-> Val(clock), phase |-> phase])
      ELSE groups

----------------------------------------------------------------------------
(* The process *)

Init ==
    /\ variant \in Variants
    /\ is_root \in (IF variant \in {"sensor", "health"} THEN BOOLEAN ELSE {TRUE})
    /\ interval = DefaultInterval(variant)
    /\ pc = "main"
    /\ dht_device = FALSE
    /\ attempt = 0
    /\ attempts = <<>>
    /\ nBackoffs = 0
    /\ sample = None
    /\ response = None
    /\ success = FALSE
    /\ posted = None
    /\ postsInCycle = 0
    /\ pending = <<>>
    /\ issued = {}
    /\ probe = None
    /\ shutdown_log = <<>>
    /\ exitStatus = None
    /\ ev = "start"
    /\ input = None
    /\ trace = <<>>
    /\ clock = None
    /\ groups = <<>>
    /\ previous = None

\* an except clause of run() is taken, then its finally clause; run() and main()
\* return and the interpreter exits
Stop(first) ==
    /\ pc' = "stopped"
    /\ shutdown_log' = ShutdownMessages(variant, first)
    /\ exitStatus' = Some(0)

\* an exception leaves run() outside its try statement: traceback, status 1
Crash ==
    /\ pc' = "crashed"
    /\ shutdown_log' = shutdown_log
    /\ exitStatus' = Some(1)

\* main() up to the call of run(): the sensor script refuses to run unprivileged
Main ==
    /\ pc = "main"
    /\ IF variant = "sensor" /\ ~is_root
         THEN pc' = "not_root" /\ exitStatus' = Some(1) /\ ev' = "not_root"
         ELSE pc' = "preflight" /\ exitStatus' = exitStatus /\ ev' = "run"
    /\ UNCHANGED <<variant, is_root, interval, dht_device, attempt, attempts, nBackoffs,
                   sample, response, success, posted, postsInCycle, pending, issued,
                   probe, shutdown_log>>
    /\ UNCHANGED <<input, trace, clock, groups>>
    /\ previous' = previous

\* DHT11Sensor.run: initialize_sensor(), return when it fails
InitSensor ==
    /\ pc = "preflight" /\ variant = "sensor"
    /\ \E hw \in InitOutcomes :
         /\ dht_device' = (hw = "ok")
         /\ probe' = Some([kind |-> hw, code |-> 0])
         /\ ev' = "init_" \o hw
         /\ IF InitializeSensor(hw)
              THEN pc' = "acquire" /\ exitStatus' = exitStatus
              ELSE pc' = "preflight_failed" /\ exitStatus' = Some(0)
    /\ UNCHANGED <<variant, is_root, interval, attempt, attempts, nBackoffs, sample,
                   response, success, posted, postsInCycle, pending, issued,
                   shutdown_log>>
    /\ UNCHANGED <<input, trace, clock, groups>>
    /\ previous' = previous

\* run() of the other three: test_api_connection(), return when it fails
ProbeApi ==
    /\ pc = "preflight" /\ variant # "sensor"
    /\ \E r \in ProbeOutcomes :
         /\ probe' = Some(r)
         /\ ev' = "probe"
         /\ IF r.kind = "Exception"
              THEN Crash /\ pending' = pending
              ELSE IF TestApiConnection(r)
              THEN /\ pc' = "initial_sidecar"
                   /\ pending' = InitialQueries(variant)
                   /\ UNCHANGED <<exitStatus, shutdown_log>>
              ELSE /\ pc' = "preflight_failed"
                   /\ exitStatus' = Some(0)
                   /\ UNCHANGED <<pending, shutdown_log>>
    /\ UNCHANGED <<variant, is_root, interval, dht_device, attempt, attempts, nBackoffs,
                   sample, response, success, posted, postsInCycle, issued>>
    /\ UNCHANGED <<input, trace, clock, groups>>
    /\ previous' = previous

\* the sidecar GETs made before the loop, outside the try statement
InitialSidecar ==
    /\ pc = "initial_sidecar"
    /\ \E r \in GetOutcomes :
         /\ issued' = issued \cup {"sidecar"}
         /\ ev' = QueryEvent(r)
         /\ IF QueryEscapes(r)
              THEN Crash /\ pending' = pending
              ELSE /\ pending' = Tail(pending)
                   /\ pc' = IF Tail(pending) = <<>> THEN "acquire" ELSE "initial_sidecar"
                   /\ UNCHANGED <<exitStatus, shutdown_log>>
    /\ UNCHANGED <<variant, is_root, interval, dht_device, attempt, attempts, nBackoffs,
                   sample, response, success, posted, postsInCycle, probe>>
    /\ groups' = GroupStart("initial", pending = InitialQueries(variant))
    /\ \E d \in CallDurations : Tick(d)
    /\ UNCHANGED <<input, trace>>
    /\ previous' = previous

\* run() calls read_sensor_data(): the guard on self.dht_device, then the loop
ReadSensorEnter ==
    /\ pc = "acquire" /\ variant = "sensor"
    /\ attempt' = 0
    /\ attempts' = <<>>
    /\ nBackoffs' = 0
    /\ ev' = "read_sensor_data"
    /\ IF dht_device
         THEN pc' = "read" /\ sample' = sample
         ELSE sample' = FailedRead(sample) /\ pc' = AfterAcquire(FailedRead(sample))
    /\ UNCHANGED <<variant, is_root, interval, dht_device, response, success, posted,
                   postsInCycle, pending, issued, probe, shutdown_log, exitStatus>>
    /\ input' = None
    /\ UNCHANGED <<trace, clock, groups>>
    /\ previous' = previous

\* the for loop moves to index a: another attempt, or the return of None
NextAttempt(a) ==
    /\ attempt' = a
    /\ IF MoreAttempts(a)
         THEN pc' = "read" /\ sample' = sample
         ELSE sample' = FailedRead(sample) /\ pc' = AfterAcquire(FailedRead(sample))

\* one iteration of the loop of read_sensor_data, up to its sleep or its return
ReadAttempt ==
    /\ pc = "read"
    /\ \E o \in SourceOutcomes :
         LET cls == IF o.raised THEN "SourceException"
                    ELSE Classify(o.temperature, o.humidity)
             data == Some(Reading(o))
         IN  /\ attempts' = Append(attempts, cls)
             /\ ev' = cls
             /\ input' = Some(o)
             /\ IF cls = "Valid"
                  THEN /\ sample' = data
                       /\ attempt' = attempt
                       /\ pc' = AfterAcquire(data)
                  ELSE IF SleepsAfter(cls, attempt)
                  THEN pc' = "backoff" /\ UNCHANGED <<attempt, sample>>
                  ELSE NextAttempt(attempt + 1)
    /\ issued' = issued \cup {"read"}
    /\ trace' = Append(trace, [op |-> "acquire", what |-> "dht11"])
    /\ UNCHANGED <<variant, is_root, interval, dht_device, nBackoffs, response, success,
                   posted, postsInCycle, pending, probe, shutdown_log, exitStatus,
                   clock, groups>>
    /\ previous' = previous

\* time.sleep(1) of read_sensor_data returns and the loop goes on
Backoff ==
    /\ pc = "backoff"
    /\ nBackoffs' = nBackoffs + 1
    /\ NextAttempt(attempt + 1)
    /\ ev' = "backoff"
    /\ UNCHANGED <<variant, is_root, interval, dht_device, attempts, response, success,
                   posted, postsInCycle, pending, issued, probe, shutdown_log,
                   exitStatus>>
    /\ input' = None
    /\ UNCHANGED <<trace, clock, groups>>
    /\ previous' = previous

\* PiHealthMonitor.run calls collect_health_data(): every getter is called once
CollectFrom(hosts) ==
    /\ pc = "acquire" /\ variant = "health"
    /\ \E avail \in hosts :
         LET data == Some(CollectHealthData(avail))
         IN  /\ sample' = data
             /\ pc' = AfterAcquire(data)
             /\ input' = Some(avail)
             /\ Tick(CollectDuration(avail))
    /\ issued' = issued \cup {"read"}
    /\ trace' = trace \o [i \in 1..Len(GetterCalls) |->
                             [op |-> "acquire", what |-> GetterCalls[i]]]
    /\ ev' = "collect"
    /\ UNCHANGED <<variant, is_root, interval, dht_device, attempt, attempts, nBackoffs,
                   response, success, posted, postsInCycle, pending, probe,
                   shutdown_log, exitStatus, groups>>
    /\ previous' = previous

\* the call with every set of working sources the host can present
CollectHealth == CollectFrom(HostStates)

\* the simulators synthesize the sample.  DHT11Simulator.generate_realistic_data
\* reads the global name math, which the script binds only as a local of main():
\* the call raises NameError, which run() catches as an unexpected error
Generate ==
    /\ pc = "acquire" /\ variant \in {"sensor_sim", "health_sim"}
    /\ IF variant = "sensor_sim"
         THEN /\ Stop("unexpected_error")
              /\ ev' = "generate_exception"
              /\ UNCHANGED <<sample, input>>
         ELSE /\ \E d \in RunDraws :
                   /\ sample' = Some(GenerateHealthData(d))
                   /\ input' = Some(d)
              /\ pc' = "report"
              /\ ev' = "generate"
              /\ UNCHANGED <<shutdown_log, exitStatus>>
    /\ trace' = Append(trace, [op |-> "acquire", what |-> "generate"])
    /\ UNCHANGED <<variant, is_root, interval, dht_device, attempt, attempts, nBackoffs,
                   response, success, posted, postsInCycle, pending, issued, probe,
                   clock, groups>>
    /\ previous' = previous

\* send_to_api / send_health_data / send_data and what run() does with the result,
\* up to the first sidecar GET or the sleep
Report ==
    /\ pc = "report"
    /\ IF sample = None
         THEN /\ success' = FALSE
              /\ pc' = "sleep"
              /\ ev' = "send_nothing"
              /\ UNCHANGED <<response, posted, postsInCycle, issued, pending,
                             shutdown_log, exitStatus, trace, clock>>
         ELSE \E r \in PostOutcomes, d \in CallDurations :
              \E due \in {SidecarDue(variant, now, draw, interval) :
                             now \in Now(d), draw \in BOOLEAN} :
              /\ Tick(d)
              /\ trace' = Append(trace, [op |-> "post", what |-> "sample"])
              /\ response' = Some(r)
              /\ posted' = Some(IF variant = "sensor" THEN SensorPayload(Val(sample))
                                ELSE Val(sample))
              /\ postsInCycle' = postsInCycle + 1
              /\ issued' = issued \cup {"post"}
              /\ ev' = PostEvent(r)
              /\ IF PostEscapes(r)
                   THEN Stop("unexpected_error") /\ UNCHANGED <<success, pending>>
                   ELSE /\ success' = PostSuccess(r)
                        /\ pc' = AfterReport(PostSuccess(r), due)
                        /\ pending' = IF AfterReport(PostSuccess(r), due) = "sidecar"
                                         THEN CycleQueries(variant) ELSE pending
                        /\ UNCHANGED <<shutdown_log, exitStatus>>
    /\ UNCHANGED <<variant, is_root, interval, dht_device, attempt, attempts, nBackoffs,
                   sample, probe, input, groups>>
    /\ previous' = previous

\* one sidecar GET of the cycle, inside the try statement
CycleSidecar ==
    /\ pc = "sidecar" /\ pending # <<>>
    /\ \E r \in GetOutcomes :
         /\ issued' = issued \cup {"sidecar"}
         /\ ev' = QueryEvent(r)
         /\ IF QueryEscapes(r)
              THEN Stop("unexpected_error") /\ pending' = pending
              ELSE /\ pending' = Tail(pending)
                   /\ pc' = IF Tail(pending) = <<>> THEN "sleep" ELSE "sidecar"
                   /\ UNCHANGED <<exitStatus, shutdown_log>>
    /\ UNCHANGED <<variant, is_root, interval, dht_device, attempt, attempts, nBackoffs,
                   sample, response, success, posted, postsInCycle, probe>>
    /\ trace' = Append(trace, [op |-> "sidecar", what |-> Head(pending)])
    /\ groups' = GroupStart("cycle", pending = CycleQueries(variant))
    /\ \E d \in CallDurations : Tick(d)
    /\ input' = input
    /\ previous' = previous

\* time.sleep(interval) returns: the next iteration of while True
Sleep ==
    /\ pc = "sleep"
    /\ pc' = "acquire"
    /\ postsInCycle' = 0
    /\ posted' = None
    /\ response' = None
    /\ issued' = issued \cup {"sleep"}
    /\ ev' = "sleep"
    /\ UNCHANGED <<variant, is_root, interval, dht_device, attempt, attempts, nBackoffs,
                   sample, success, pending, probe, shutdown_log, exitStatus>>
    /\ input' = None
    /\ trace' = <<>>
    /\ \E extra \in SleepOvershoots : Tick(SleepDuration(interval, extra))
    /\ groups' = groups
    /\ previous' = previous

\* Ctrl-C while run() is inside its try statement: except KeyboardInterrupt
Interrupt ==
    /\ pc \in LoopPcs
    /\ Stop("stopped_by_user")
    /\ ev' = "KeyboardInterrupt"
    /\ UNCHANGED <<variant, is_root, interval, dht_device, attempt, attempts, nBackoffs,
                   sample, response, success, posted, postsInCycle, pending, issued,
                   probe>>
    /\ UNCHANGED <<input, trace, clock, groups>>
    /\ previous' = previous

\* Ctrl-C while run() is before its try statement: nothing catches it
InterruptBeforeLoop ==
    /\ pc \in {"preflight", "initial_sidecar"}
    /\ Crash
    /\ ev' = "KeyboardInterrupt"
    /\ UNCHANGED <<variant, is_root, interval, dht_device, attempt, attempts, nBackoffs,
                   sample, response, success, posted, postsInCycle, pending, issued,
                   probe>>
    /\ UNCHANGED <<input, trace, clock, groups>>
    /\ previous' = previous

\* one call of the simulator's generator on its own
Synthesize ==
    /\ pc = "synthesize"
    /\ pc' = "synthesized"
    /\ IF variant = "sensor_sim"
         THEN sample' = None /\ input' = None /\ ev' = "generate_exception"
         ELSE \E d \in SynthDraws :
                /\ sample' = Some(GenerateHealthData(d))
                /\ input' = Some(d)
                /\ ev' = "generate"
    /\ UNCHANGED <<variant, is_root, interval, dht_device, attempt, attempts, nBackoffs,
                   response, success, posted, postsInCycle, pending, issued, probe,
                   shutdown_log, exitStatus, trace, clock, groups>>
    /\ previous' = previous

Next ==
    \/ Main
    \/ InitSensor
    \/ ProbeApi
    \/ InitialSidecar
    \/ ReadSensorEnter
    \/ ReadAttempt
    \/ Backoff
    \/ CollectHealth
    \/ Generate
    \/ Report
    \/ CycleSidecar
    \/ Sleep
    \/ Interrupt
    \/ InterruptBeforeLoop

Spec == Init /\ [][Next]_vars

\* every call the process makes returns (the sensor read, the HTTP calls with
\* their timeouts, time.sleep) and the process is scheduled: a step that can be
\* taken is taken
\* for the progress of the loop: every source works, none works, the two
\* optional ones do not
LiveHostStates == {MetricSources, {}, RequiredSources}

NextLive ==
    \/ Main
    \/ InitSensor
    \/ ProbeApi
    \/ InitialSidecar
    \/ ReadSensorEnter
    \/ ReadAttempt
    \/ Backoff
    \/ CollectFrom(LiveHostStates)
    \/ Generate
    \/ Report
    \/ CycleSidecar
    \/ Sleep
    \/ Interrupt
    \/ InterruptBeforeLoop

SpecLive == Init /\ [][NextLive]_vars /\ WF_vars(NextLive)

----------------------------------------------------------------------------
(* The health monitor with its wall clock followed second by second *)

\* time.time() % 300 when main() starts
StartTimes == {0, 28, 295}

InitTimed ==
    /\ variant = "health"
    /\ is_root = TRUE
    /\ interval = DefaultInterval(variant)
    /\ pc = "main"
    /\ dht_device = FALSE
    /\ attempt = 0
    /\ attempts = <<>>
    /\ nBackoffs = 0
    /\ sample = None
    /\ response = None
    /\ success = FALSE
    /\ posted = None
    /\ postsInCycle = 0
    /\ pending = <<>>
    /\ issued = {}
    /\ probe = None
    /\ shutdown_log = <<>>
    /\ exitStatus = None
    /\ ev = "start"
    /\ input = None
    /\ trace = <<>>
    /\ clock \in {Some(t) : t \in StartTimes}
    /\ groups = <<>>
    /\ previous = None

NextTimed ==
    \/ Main
    \/ ProbeApi
    \/ InitialSidecar
    \/ CollectHealth
    \/ Report
    \/ CycleSidecar
    \/ Sleep
    \/ Interrupt
    \/ InterruptBeforeLoop

SpecTimed == InitTimed /\ [][NextTimed]_vars

----------------------------------------------------------------------------
(* The health monitor started with --interval, its wall clock followed *)

\* values of --interval (argparse type=int)
ConfiguredIntervals == {0, 30, 300, 301}

InitInterval ==
    /\ variant = "health"
    /\ is_root = TRUE
    /\ interval \in ConfiguredIntervals
    /\ pc = "main"
    /\ dht_device = FALSE
    /\ attempt = 0
    /\ attempts = <<>>
    /\ nBackoffs = 0
    /\ sample = None
    /\ response = None
    /\ success = FALSE
    /\ posted = None
    /\ postsInCycle = 0
    /\ pending = <<>>
    /\ issued = {}
    /\ probe = None
    /\ shutdown_log = <<>>
    /\ exitStatus = None
    /\ ev = "start"
    /\ input = None
    /\ trace = <<>>
    /\ clock \in {Some(t) : t \in StartTimes}
    /\ groups = <<>>
    /\ previous = None

SpecInterval == InitInterval /\ [][NextTimed]_vars

----------------------------------------------------------------------------
(* The simulators' generators on their own *)

InitSynth ==
    /\ variant \in {"sensor_sim", "health_sim"}
    /\ is_root = TRUE
    /\ interval = DefaultInterval(variant)
    /\ pc = "synthesize"
    /\ dht_device = FALSE
    /\ attempt = 0
    /\ attempts = <<>>
    /\ nBackoffs = 0
    /\ sample = None
    /\ response = None
    /\ success = FALSE
    /\ posted = None
    /\ postsInCycle = 0
    /\ pending = <<>>
    /\ issued = {}
    /\ probe = None
    /\ shutdown_log = <<>>
    /\ exitStatus = None
    /\ ev = "start"
    /\ input = None
    /\ trace = <<>>
    /\ clock = None
    /\ groups = <<>>
    /\ previous = None

\* a second call of the generator on the same object, with time.time(),
\* datetime.now() and the random source as they were at the first call
SynthesizeAgain ==
    /\ pc = "synthesized"
    /\ pc' = "synthesized_again"
    /\ previous' = sample
    /\ IF variant = "sensor_sim"
         THEN sample' = None /\ ev' = "generate_exception"
         ELSE sample' = Some(GenerateHealthData(Val(input))) /\ ev' = "generate"
    /\ UNCHANGED <<variant, is_root, interval, dht_device, attempt, attempts, nBackoffs,
                   response, success, posted, postsInCycle, pending, issued, probe,
                   shutdown_log, exitStatus, input, trace, clock, groups>>

NextSynth ==
    \/ Synthesize
    \/ SynthesizeAgain

SpecSynth == InitSynth /\ [][NextSynth]_vars

----------------------------------------------------------------------------
(* Properties *)

InRange(d) ==
    /\ -100 <= d.temperature /\ d.temperature <= 100
    /\ 0 <= d.humidity /\ d.humidity <= 100

\* C1: in the sensor agent, whatever the source yields, the reading returned by
\* read_sensor_data and the payload of every POST have a temperature in
\* [-100, 100] and a humidity in [0, 100].
C1_TransmittedReadingsInRange ==
    variant = "sensor" =>
        /\ (sample # None => InRange(Val(sample)))
        /\ (posted # None => InRange(Val(posted)))

\* C1 witness: an out-of-range attempt was rejected, and a later attempt at the
\* bound 100 was returned and posted.
C1_Witness ==
    /\ variant = "sensor"
    /\ posted # None
    /\ Val(posted).temperature = 100
    /\ Len(attempts) >= 2
    /\ attempts[1] = "OutOfRange"

AllAttemptsAre(cls) == \A i \in 1..Len(attempts) : attempts[i] = cls

\* C2: one call of read_sensor_data makes at most MAX_RETRIES attempts; a source
\* exception leaves the agent inside the loop (the call goes on or returns, it
\* does not raise); the call returns failure only after exactly MAX_RETRIES
\* attempts; and after three Missing attempts and the last wait the call has
\* returned failure.
C2_BoundedAttemptsThenFailure ==
    variant = "sensor" =>
        /\ Len(attempts) <= MAX_RETRIES
        /\ (ev = "SourceException" => pc \in {"read", "backoff", "sleep"})
        /\ (pc = "sleep" /\ sample = None => Len(attempts) = MAX_RETRIES)
        /\ (/\ Len(attempts) = MAX_RETRIES
            /\ AllAttemptsAre("Missing")
            /\ pc \in LoopPcs \ {"backoff"}
            => sample = None /\ pc \in {"sleep", "acquire"})

\* C2 witness: the source yielded Missing three times and the call returned None.
C2_Witness ==
    /\ variant = "sensor"
    /\ attempts = <<"Missing", "Missing", "Missing">>
    /\ pc = "sleep"
    /\ sample = None

\* C3: when the POST ended with a status code or with a RequestException, the
\* send function returned (the agent is still in its loop) and its result is
\* True exactly when the status code is 201.
C3_SuccessIffCreated ==
    (response # None /\ ev \in {"post_201", "post_non201", "post_request_exception"}) =>
        /\ pc \in {"sleep", "sidecar"}
        /\ success = (Val(response).kind = "status" /\ Val(response).code = 201)

\* C3 witness: the API answered 200 OK and the send function returned False.
C3_Witness ==
    /\ response # None
    /\ ev = "post_non201"
    /\ Val(response).code = 200
    /\ ~success

\* every attempt of the current call was made and none was valid
AcquisitionFailed ==
    /\ variant = "sensor"
    /\ Len(attempts) = MAX_RETRIES
    /\ \A i \in 1..Len(attempts) : attempts[i] # "Valid"

\* C4: in the sensor agent, when every attempt of a cycle failed, the reporter is
\* not entered and no POST is issued in that cycle; the loop sleeps, and what
\* follows the sleep is the next call of read_sensor_data.
C4_FailedAcquisitionSkipsReport ==
    /\ [](AcquisitionFailed =>
            /\ postsInCycle = 0
            /\ posted = None
            /\ pc \in {"backoff", "sleep", "acquire", "stopped"})
    /\ [][(AcquisitionFailed /\ pc = "sleep" /\ pc' # "sleep")
            => (pc' = "acquire" \/ ev' = "KeyboardInterrupt")]_vars
    /\ [][(variant = "sensor" /\ pc = "acquire" /\ pc' # "acquire")
            => (pc' = "read" \/ ev' = "KeyboardInterrupt")]_vars

\* C4 witness: three out-of-range attempts, no POST, and the sleep has returned.
C4_Witness ==
    /\ variant = "sensor"
    /\ attempts = <<"OutOfRange", "OutOfRange", "OutOfRange">>
    /\ pc = "acquire"
    /\ ev = "sleep"
    /\ postsInCycle = 0

RecoveredEvents ==
    {"Missing", "OutOfRange", "SourceException", "post_non201", "post_request_exception"}

\* C5: a step of the running loop in which the source yields a Missing or an
\* out-of-range reading or raises, or in which the POST gets a non-201 answer or a
\* RequestException, leaves the agent in its loop; after a failed POST the loop
\* is at its sleep; a host metric source that fails does not keep the sample from
\* being built and handed to the reporter.
C5_FailuresKeepRunning ==
    /\ [][(pc \in LoopPcs /\ ev' \in RecoveredEvents) => pc' \in LoopPcs]_vars
    /\ [][(pc = "report" /\ ev' \in {"post_non201", "post_request_exception"})
            => pc' = "sleep"]_vars
    /\ [][(pc = "acquire" /\ ev' = "collect") => (pc' = "report" /\ sample' # None)]_vars

\* C5 witness: the POST of the health monitor ended with a RequestException and
\* the loop is at its sleep.
C5_Witness ==
    /\ variant = "health"
    /\ ev = "post_request_exception"
    /\ pc = "sleep"

\* C6: in read_sensor_data, whenever another attempt is about to be made, every
\* earlier (failed) attempt of the call has been followed by one 1-second wait.
C6_BackoffBeforeEveryRetry ==
    (variant = "sensor" /\ pc = "read") => nBackoffs = Len(attempts)

PreflightFailed ==
    /\ probe # None
    /\ \/ Val(probe).kind = "raises"
       \/ Val(probe).kind = "RequestException"
       \/ (Val(probe).kind = "status" /\ Val(probe).code # 200)

\* C7: once the preflight step has failed (the sensor could not be initialized,
\* the health probe was answered with a non-200 status or ended with a network
\* error), the agent is never in its loop and has issued no source read, no POST,
\* no sidecar query and no sleep.
C7_FailedPreflightNeverRuns ==
    PreflightFailed =>
        /\ pc = "preflight_failed"
        /\ issued = {}
        /\ posted = None
        /\ sample = None

\* C7 witness: the health probe of the health monitor was answered with 500.
C7_Witness ==
    /\ variant = "health"
    /\ PreflightFailed
    /\ Val(probe).code = 500
    /\ pc = "preflight_failed"

\* C8: a process whose preflight step failed ends with a non-zero exit status.
C8_PreflightFailureExitsNonZero ==
    (PreflightFailed /\ exitStatus # None) => Val(exitStatus) # 0

StopEvents == {"KeyboardInterrupt", "post_exception", "query_bad_body", "generate_exception"}

\* C9: the loop is left only for Stopped, and only by a KeyboardInterrupt or by
\* an exception that escapes the cycle body (a non-RequestException from the
\* POST, from a sidecar getter or from the generator); no step is taken from
\* Stopped.
C9_StoppedOnlyByInterruptOrEscape ==
    /\ [][(pc \in LoopPcs /\ pc' \notin LoopPcs)
            => (pc' = "stopped" /\ ev' \in StopEvents)]_vars
    /\ [][pc = "stopped" => UNCHANGED vars]_vars

\* C9 witness: the health monitor was stopped by an exception escaping a sidecar
\* getter of the cycle.
C9_Witness ==
    /\ variant = "health"
    /\ pc = "stopped"
    /\ ev = "query_bad_body"
    /\ "post" \in issued

\* C10: in every variant, whichever way the loop was left, the last message
\* logged by run() is the shutdown message of its finally clause.
C10_SameFinalShutdownLog ==
    pc = "stopped" =>
        /\ shutdown_log # <<>>
        /\ shutdown_log[Len(shutdown_log)] = "monitoring_stopped"

----------------------------------------------------------------------------
(* The order of the operations of one cycle *)

\* the positions of the current cycle's trace that hold an operation of kind op
Ops(op) == {i \in DOMAIN trace : trace[i].op = op}

AcquirePcs == {"acquire", "read", "backoff"}

\* C11: within one cycle the acquisition completes before the POST is issued,
\* and the POST completes before any sidecar query is issued: every acquisition
\* operation precedes the POST, every sidecar GET follows a POST, run() reaches
\* the report only from the acquisition with a sample, and the sidecar queries
\* only from a report whose POST has been answered
C11_AcquireThenPostThenQueries ==
    /\ [](/\ \A i \in Ops("post") :
               /\ Ops("acquire") # {}
               /\ \A j \in Ops("acquire") : j < i
          /\ \A i \in Ops("sidecar") :
               /\ Ops("post") # {}
               /\ \A j \in Ops("post") \cup Ops("acquire") : j < i)
    /\ [][/\ pc' = "report" => pc \in AcquirePcs /\ sample' # None
          /\ (pc' = "sidecar" /\ pc # "sidecar") => pc = "report" /\ response' # None]_vars

\* a cycle that acquired, posted and made its sidecar queries
C11_Witness ==
    /\ pc = "sleep"
    /\ Ops("acquire") # {} /\ Ops("post") # {} /\ Ops("sidecar") # {}

\* C12: at most one POST is issued per cycle, and a failed POST is not sent
\* again in the same cycle
C12_AtMostOnePostPerCycle ==
    /\ postsInCycle <= 1
    /\ Cardinality(Ops("post")) = postsInCycle
    /\ pc = "report" => postsInCycle = 0

\* a cycle whose only POST failed, waiting for the next cycle
C12_Witness ==
    /\ pc = "sleep" /\ postsInCycle = 1
    /\ response # None /\ ~PostSuccess(Val(response))

----------------------------------------------------------------------------
(* Sidecar queries and the main cycle *)

FailedQueryEvents == {"query_non200", "query_request_exception", "query_bad_body"}

\* C15: a sidecar query of a cycle that fails (non-200 response, network
\* error, unexpected response body) leaves the loop running
C15_FailedQueryKeepsRunning ==
    (ev \in FailedQueryEvents /\ Ops("sidecar") # {}) => AgentState = "Running"

----------------------------------------------------------------------------
(* The health sample *)

\* the number of times the getter of source s was called in the current cycle
Reads(s) == Cardinality({i \in Ops("acquire") : trace[i].what = s})

\* C16: the payload of the health monitor holds voltage exactly when the voltage
\* source returned a value, and frequency likewise; with either unavailable the
\* sample is still built, holds every required field, and is what is sent
C16_OptionalFieldsIffAvailable ==
    (variant = "health" /\ input # None) =>
        /\ sample # None
        /\ RequiredFields \subseteq DOMAIN Val(sample)
        /\ "voltage" \in DOMAIN Val(sample) <=> "cpu_voltage" \in Val(input)
        /\ "frequency" \in DOMAIN Val(sample) <=> "cpu_frequency" \in Val(input)
        /\ posted # None => Val(posted) = Val(sample)

\* a sample sent without voltage and with frequency
C16_Witness ==
    /\ variant = "health" /\ posted # None /\ input # None
    /\ "cpu_voltage" \notin Val(input) /\ "cpu_frequency" \in Val(input)
    /\ "voltage" \notin DOMAIN Val(posted) /\ "frequency" \in DOMAIN Val(posted)

\* C17: every metric source is read exactly once per cycle; a required metric
\* whose source fails is 0 in the sample; whatever sources fail, a sample is
\* returned and handed to the reporter
C17_EverySourceOnceZeroOnFailure ==
    (variant = "health" /\ input # None) =>
        /\ \A s \in MetricSources : Reads(s) = 1
        /\ sample # None
        /\ \A f \in RequiredFields :
              /\ f \in DOMAIN Val(sample)
              /\ FieldSource(f) \notin Val(input) => Val(sample)[f] = 0
        /\ pc \in {"sidecar", "sleep"} => postsInCycle = 1

\* a cycle in which every source failed and the sample of zeros was sent
C17_Witness ==
    /\ variant = "health" /\ input = Some({})
    /\ posted # None /\ \A f \in RequiredFields : Val(posted)[f] = 0

----------------------------------------------------------------------------
(* The validator *)

Unvalidated(o) == o.temperature = None \/ o.humidity = None

Exceeds(o) ==
    \/ Val(o.temperature) < -100 \/ Val(o.temperature) > 100
    \/ Val(o.humidity) < 0 \/ Val(o.humidity) > 100

\* C18: an attempt that read the pair (t, h) is Missing exactly when t or h is
\* absent, OutOfRange exactly when both are present and t < -100, t > 100,
\* h < 0 or h > 100, and Valid otherwise
C18_ValidatorClasses ==
    (ev \in {"Missing", "OutOfRange", "Valid"} /\ input # None) =>
        LET o == Val(input)
        IN  /\ ~o.raised
            /\ ev = "Missing" <=> Unvalidated(o)
            /\ ev = "OutOfRange" <=> (~Unvalidated(o) /\ Exceeds(o))
            /\ ev = "Valid" <=> (~Unvalidated(o) /\ ~Exceeds(o))

\* the pair of bounds (100, 0) was read and found valid
C18_Witness ==
    /\ ev = "Valid" /\ input # None
    /\ Val(input).temperature = Some(100) /\ Val(input).humidity = Some(0)

----------------------------------------------------------------------------
(* The sidecar queries of the health monitor against the wall clock *)

\* the groups of sidecar GETs started from inside the loop
LoopGroups == {i \in DOMAIN groups : groups[i].phase = "cycle"}

\* the aligned 300-second window a moment lies in
Window(t) == t \div 300

\* C13 as stated: every status / recommendations group the agent starts, the
\* one before the loop included, starts when wall-clock seconds mod 300 < 30
C13_EveryQueryInFirstSeconds ==
    \A i \in DOMAIN groups : (groups[i].at % 300) < interval

\* C13 amended: every status / recommendations group started from inside the
\* loop starts when wall-clock seconds mod 300 < 30; the group started before
\* the loop is not bound to the clock
C13_LoopQueriesInFirstSeconds ==
    \A i \in LoopGroups : (groups[i].at % 300) < interval

\* a group started from the loop in the last second in which it is due
C13_Witness ==
    \E i \in LoopGroups : groups[i].at % 300 = interval - 1

\* C14 as stated: no two groups of sidecar queries of a run start in the same
\* 300-second window
C14_OncePerWindow ==
    \A i, j \in DOMAIN groups : i < j => Window(groups[i].at) # Window(groups[j].at)

\* C14 amended: no two groups started from inside the loop start in the same
\* 300-second window
C14_LoopQueriesOncePerWindow ==
    \A i, j \in LoopGroups : i < j => Window(groups[i].at) # Window(groups[j].at)

\* the loop started a group in each of two windows
C14_Witness ==
    \E i, j \in LoopGroups : Window(groups[i].at) < Window(groups[j].at)

----------------------------------------------------------------------------
(* The simulators' output.  Values are in thousandths. *)

Within(lo, x, hi) == lo <= x /\ x <= hi

C20_LoadAveragesNeverNegative ==
    (variant = "health_sim" /\ sample # None) =>
        /\ Val(sample).loadAverage1m >= 0
        /\ Val(sample).loadAverage5m >= 0
        /\ Val(sample).loadAverage15m >= 0

----------------------------------------------------------------------------
(* Samples and cycles *)

\* the sample held by run() was built from what this cycle's acquisition got
Fresh ==
    /\ input # None
    /\ sample # None
    /\ CASE variant = "sensor" ->
              /\ Val(input).temperature # None /\ Val(input).humidity # None
              /\ Val(sample).temperature = Val(Val(input).temperature)
              /\ Val(sample).humidity = Val(Val(input).humidity)
         [] variant = "health" -> Val(sample) = CollectHealthData(Val(input))
         [] OTHER -> Val(sample) = GenerateHealthData(Val(input))

\* the payload of the values of sample d
Carries(payload, d) == \A f \in DOMAIN d : payload[f] = d[f]

\* C22: the payload POSTed in a cycle is the sample acquired in that cycle: a
\* sample of an earlier cycle, sent or not, is never what a later cycle sends
C22_PostedSampleIsOfItsCycle ==
    /\ pc = "report" => Fresh
    /\ posted # None => Fresh /\ Carries(Val(posted), Val(sample))

\* the sensor agent posted the reading of a cycle that is not its first
C22_Witness ==
    /\ variant = "sensor" /\ "sleep" \in issued
    /\ posted # None
    /\ Val(posted).temperature = 100 /\ Val(posted).humidity = 0

----------------------------------------------------------------------------
(* read_sensor_data: the attempt that succeeds, the attempts that all raise *)

\* C25: when attempt k is the first valid one, read_sensor_data has made
\* exactly k attempts and returns the values read by attempt k
C25_ReturnsFirstValidAttempt ==
    ev = "Valid" =>
        LET k == Len(attempts)
        IN  /\ 1 <= k /\ k <= MAX_RETRIES
            /\ attempt = k - 1
            /\ Cardinality(Ops("acquire")) = k
            /\ attempts[k] = "Valid"
            /\ \A i \in 1..(k - 1) : attempts[i] # "Valid"
            /\ pc = "report"
            /\ sample = Some([temperature |-> Val(Val(input).temperature),
                              humidity |-> Val(Val(input).humidity)])

\* the third attempt was the first valid one, after an out-of-range pair
C25_Witness ==
    /\ ev = "Valid" /\ Len(attempts) = MAX_RETRIES
    /\ attempts[1] = "OutOfRange"
    /\ Val(sample).temperature = 22 /\ Val(sample).humidity = 48

\* C27: when the source raises on every attempt, MAX_RETRIES - 1 backoff waits
\* are made, none after the last attempt, and the call returns failure
C27_AllRaiseBackoffsThenFailure ==
    (variant = "sensor" /\ attempts # <<>> /\ AllAttemptsAre("SourceException")) =>
        /\ nBackoffs <= Len(attempts)
        /\ nBackoffs <= MAX_RETRIES - 1
        /\ Len(attempts) = MAX_RETRIES =>
              /\ nBackoffs = MAX_RETRIES - 1
              /\ sample = None
              /\ pc \in {"sleep", "acquire", "stopped"}

\* the call returned failure after MAX_RETRIES attempts that all raised
C27_Witness ==
    /\ variant = "sensor" /\ pc = "sleep"
    /\ Len(attempts) = MAX_RETRIES /\ AllAttemptsAre("SourceException")
    /\ nBackoffs = MAX_RETRIES - 1 /\ sample = None

----------------------------------------------------------------------------
(* Sidecar queries and the result of the POST *)

\* C24: the sidecar queries of a cycle are issued only when the POST of that
\* cycle was answered 201; after a POST that failed none is issued
C24_QueriesOnlyAfterCreated ==
    (pc = "sidecar" \/ Ops("sidecar") # {}) =>
        /\ response # None
        /\ Val(response).kind = "status" /\ Val(response).code = 201
        /\ success

\* the health simulator made its three queries after a POST answered 201
C24_Witness ==
    /\ variant = "health_sim" /\ pc = "sleep"
    /\ Cardinality(Ops("sidecar")) = 3
    /\ Val(response).code = 201

----------------------------------------------------------------------------
(* The time-modulo test at the ends of the range of --interval *)

\* C26: with an interval of 300 or more the health monitor makes its sidecar
\* queries in every cycle whose POST succeeded, at whatever moment; with an
\* interval of 0 it makes none inside the loop
C26_IntervalEdgeCases ==
    /\ [][(interval >= 300 /\ pc = "report" /\ ev' = "post_201") => pc' = "sidecar"]_vars
    /\ [](interval = 0 => pc # "sidecar" /\ Ops("sidecar") = {} /\ LoopGroups = {})

\* with an interval of 300 or more, queries were made from the loop at a moment
\* past the first 30 seconds of the window
C26_Witness ==
    /\ interval >= 300 /\ Ops("sidecar") # {}
    /\ \E i \in LoopGroups : groups[i].at % 300 >= MONITORING_INTERVAL

----------------------------------------------------------------------------
(* Progress of the loop *)

AcquisitionStarts == {"read_sensor_data", "collect", "generate", "generate_exception"}

\* C23: a running loop that is neither interrupted nor left by an exception
\* reaches its inter-cycle sleep in every cycle and then starts a new
\* acquisition, whatever fails in the cycle; an acquisition starts only when
\* run() is at the head of a cycle, and inside the loop the head of a cycle is
\* reached only by a completed sleep
C23_EveryCycleSleepsAndRestarts ==
    /\ (pc \in LoopPcs) ~> (pc \in {"sleep", "stopped"})
    /\ (pc = "sleep") ~> (pc \in {"acquire", "stopped"})
    /\ [][/\ ev' \in AcquisitionStarts => pc = "acquire" /\ pc' # "acquire"
          /\ (pc \in LoopPcs /\ pc # "acquire" /\ pc' = "acquire") =>
                pc = "sleep" /\ ev' = "sleep"]_vars

\* the sensor agent at the head of a new cycle, after a cycle whose three
\* attempts failed
C23_Witness ==
    /\ variant = "sensor" /\ pc = "acquire" /\ ev = "sleep"
    /\ Len(attempts) = MAX_RETRIES /\ sample = None

====
